---- MODULE Spec2Model ----
(***************************************************************************)
(* Model of the kgame reconciliation core: the GatewayClass reconciler,    *)
(* the Gateway reconciler, the Gateway admission predicate and the         *)
(* GatewayClass cache transform, run against an object store with          *)
(* resource versions and an informer cache that may lag the store.         *)
(* One GatewayClass ("gc1") and one Gateway ("gw1") are modelled.          *)
(***************************************************************************)
EXTENDS Integers, Sequences, FiniteSets, TLC

\* ---------------------------------------------------------------- bounds
\* the clock (metav1.Now) reads 0..MaxClock
MaxClock == 0
\* the longest condition list an object starts with
MaxConds == 2
\* a second writer writes only to an object whose resource version is
\* below this
MaxVersion == 2

\* ------------------------------------------------------- program constants
\* retry.DefaultBackoff.Steps: attempts of retry.RetryOnConflict
DefaultBackoffSteps == 4

Kinds == {"GatewayClass", "Gateway"}

\* the controller-class identity main.go configures, and a foreign one
ControllerClass == "gateway.mylab.tld/gatewayclass-controller"
OtherController == "example.net/other-controller"

\* the finalizer a reconciler is configured with, and a foreign finalizer
F == "kgame-finalizer"
G == "other-finalizer"

ClassName == "gc1"
MissingClassName == "gc2"

\* ---------------------------------------------------------------- helpers
Nil == <<>>

RECURSIVE SeqFilterOut(_, _)
SeqFilterOut(s, x) ==
    IF s = <<>> THEN <<>>
    ELSE IF Head(s) = x THEN SeqFilterOut(Tail(s), x)
         ELSE <<Head(s)>> \o SeqFilterOut(Tail(s), x)

InSeq(s, x) == \E i \in 1..Len(s) : s[i] = x

\* controllerutil.ContainsFinalizer
ContainsFinalizer(o, name) == InSeq(o.Finalizers, name)

\* a RemoveFinalizer that empties the list
RemoveFinalizerClearsAll(o, name) == [o EXCEPT !.Finalizers = <<>>]

\* controllerutil.RemoveFinalizer: drops every occurrence; the returned flag
\* says whether the list changed
RemoveFinalizerObj(o, name) == [o EXCEPT !.Finalizers = SeqFilterOut(@, name)]
RemoveFinalizerChanged(o, name) == ContainsFinalizer(o, name)

\* an AddFinalizer that reports a change even when the finalizer is there
AddFinalizerAlwaysChanged(o, name) == TRUE

\* controllerutil.AddFinalizer: appends when absent; the returned flag says
\* whether the list changed
AddFinalizerObj(o, name) ==
    IF ContainsFinalizer(o, name) THEN o
    ELSE [o EXCEPT !.Finalizers = Append(@, name)]
AddFinalizerChanged(o, name) == ~ContainsFinalizer(o, name)

\* ------------------------------------------------------------- conditions
Accepted == "Accepted"
Programmed == "Programmed"
Ready == "Ready"
CondTypes == {Accepted, Programmed, Ready}

NewCondition(type, status, reason, message, t, generation) ==
    [Type |-> type, Status |-> status, Reason |-> reason, Message |-> message,
     LastTransitionTime |-> t, ObservedGeneration |-> generation]

\* a condition as some earlier writer left it
OldCondition(type) == NewCondition(type, "False", "Pending", "", 0, 1)

\* the condition lists an object starts with: the sublists of
\* <<Ready, Accepted, Programmed>> that are at most MaxConds long
AllTypes == <<Ready, Accepted, Programmed>>

RECURSIVE Pick(_, _)
Pick(s, keep) ==
    IF s = <<>> THEN <<>>
    ELSE (IF Len(s) \in keep THEN <<s[Len(s)]>> ELSE <<>>)
         \o Pick(SubSeq(s, 1, Len(s) - 1), keep)

RECURSIVE Reverse(_)
Reverse(s) == IF s = <<>> THEN <<>> ELSE Append(Reverse(Tail(s)), Head(s))

InitialConditionLists ==
    {[i \in 1..Cardinality(keep) |->
        OldCondition(Reverse(Pick(AllTypes, keep))[i])] :
        keep \in {k \in SUBSET (1..Len(AllTypes)) : Cardinality(k) <= MaxConds}}

HasCond(conds, type) == \E i \in 1..Len(conds) : conds[i].Type = type
CondsOfType(conds, type) == {i \in 1..Len(conds) : conds[i].Type = type}

\* markAsAccepted rewrites, in place, every entry of type Accepted; it
\* appends nothing
markAsAccepted(conditions, generation, t) ==
    [i \in 1..Len(conditions) |->
        IF conditions[i].Type = Accepted
        THEN NewCondition(Accepted, "True", "Accepted",
                          "GatewayClass is accepted", t, generation)
        ELSE conditions[i]]

\* mutateConditions returns the list with the first entry of the type
\* replaced, or with the new condition appended when there is none
FirstOfType(conditions, type) ==
    CHOOSE i \in CondsOfType(conditions, type) :
        \A j \in CondsOfType(conditions, type) : i <= j

mutateConditions(conditions, condtype, reason, status, message, generation, t) ==
    LET new == NewCondition(condtype, status, reason, message, t, generation)
    IN  IF HasCond(conditions, condtype)
        THEN [conditions EXCEPT ![FirstOfType(conditions, condtype)] = new]
        ELSE Append(conditions, new)

\* What the caller's slice holds after a call whose return value is dropped:
\* an in-place replacement is seen through the shared backing array, an
\* append is not (the caller's slice header keeps its length)
CallerSliceAfter(before, returned) ==
    IF Len(returned) = Len(before) THEN returned ELSE before


\* ---------------------------------------------------------------- objects
\* every object is at generation 2; OldCondition observed generation 1
Object(kind, name, spec, del, fins, conds) ==
    [Kind |-> kind, Name |-> name, Spec |-> spec, Generation |-> 2,
     DeletionTimestamp |-> del, Finalizers |-> fins, Conditions |-> conds,
     ResourceVersion |-> 1, ManagedFields |-> <<"manager">>]

\* finalizer lists an object starts with
InitialFinalizerLists == {<<>>, <<F>>, <<G>>, <<G, F>>}

\* a GatewayClass: Spec is spec.controllerName
ClassObjects ==
    {Object("GatewayClass", ClassName, ControllerClass, d, f, cs) :
        d \in BOOLEAN, f \in InitialFinalizerLists,
        cs \in InitialConditionLists}

\* a Gateway: Spec is spec.gatewayClassName
GatewayObjects ==
    {Object("Gateway", "gw1", ClassName, d, f, cs) :
        d \in BOOLEAN, f \in InitialFinalizerLists,
        cs \in InitialConditionLists}

\* a Gateway whose class reference names no GatewayClass at all
StrayGateway ==
    Object("Gateway", "gw1", MissingClassName, FALSE, <<>>, <<>>)

\* an object the store would already have deleted is no initial object
Stored(o) == ~(o.DeletionTimestamp /\ o.Finalizers = <<>>)

\* GatewayClassOptions / GatewayOptions: the finalizer name ("" disables
\* finalizer handling) and whether each hook is non-nil
AllOptions ==
    [FinalizerName : {"", F}, AddFinalizerFunc : BOOLEAN,
     RemoveFinalizerFunc : BOOLEAN]

\* the options tried: both hooks set or both nil, and with no finalizer
\* name both set (they must stay unused)
Options ==
    {o \in AllOptions :
        /\ o.AddFinalizerFunc = o.RemoveFinalizerFunc
        /\ o.FinalizerName = "" => o.AddFinalizerFunc}

DefaultOptions ==
    [FinalizerName |-> F, AddFinalizerFunc |-> FALSE,
     RemoveFinalizerFunc |-> FALSE]

\* the options of a reconciler that handles no finalizer
NoFinalizerOptions ==
    [FinalizerName |-> "", AddFinalizerFunc |-> FALSE,
     RemoveFinalizerFunc |-> FALSE]

\* a managed GatewayClass its reconciler has nothing left to do for
SettledClass ==
    Object("GatewayClass", ClassName, ControllerClass, FALSE, <<>>, <<>>)
UnmanagedClass ==
    Object("GatewayClass", ClassName, OtherController, FALSE, <<>>, <<>>)

\* ------------------------------------------------------------ object store
\* A stored slot is <<>> (no object) or <<o>>.  A write answers
\* [res, store, obj]: the outcome, the slot afterwards and the object the
\* client decodes from the response.
Bump(old, new) ==
    IF new = old THEN old
    ELSE [new EXCEPT !.ResourceVersion = old.ResourceVersion + 1]

\* the store deletes a terminating object once its last finalizer is gone
Settle(old, new) ==
    IF new.DeletionTimestamp /\ new.Finalizers = <<>> THEN <<>>
    ELSE <<Bump(old, new)>>

Answer(res, slot, o) == [res |-> res, store |-> slot, obj |-> o]

\* the store refuses a write that gives a terminating object a finalizer
\* it did not have
AddsFinalizer(old, new) ==
    \E i \in 1..Len(new.Finalizers) : ~InSeq(old.Finalizers, new.Finalizers[i])
Forbidden(old, new) == old.DeletionTimestamp /\ AddsFinalizer(old, new)

\* client.Update: full-object write guarded by the object's resource
\* version; the status subresource is left alone
Update(slot, o) ==
    IF slot = <<>> THEN Answer("NotFound", slot, o)
    ELSE IF o.ResourceVersion # slot[1].ResourceVersion
         THEN Answer("Conflict", slot, o)
    ELSE LET new == [slot[1] EXCEPT !.Finalizers = o.Finalizers,
                                    !.Spec = o.Spec]
         IN  IF Forbidden(slot[1], new) THEN Answer("Invalid", slot, o)
             ELSE Answer("ok", Settle(slot[1], new), Bump(slot[1], new))

\* client.Status().Update: status-only write guarded by the resource version
StatusUpdate(slot, o) ==
    IF slot = <<>> THEN Answer("NotFound", slot, o)
    ELSE IF o.ResourceVersion # slot[1].ResourceVersion
         THEN Answer("Conflict", slot, o)
    ELSE LET new == [slot[1] EXCEPT !.Conditions = o.Conditions]
         IN  Answer("ok", <<Bump(slot[1], new)>>, Bump(slot[1], new))

\* client.MergeFrom(original): a JSON merge patch carries the fields of o
\* that differ from original, lists as a whole; it carries the resource
\* version only when that differs too, and only then is the write guarded
PatchGuarded(o, original) == o.ResourceVersion # original.ResourceVersion

\* client.Patch: the main resource takes metadata and spec from the patch
Patch(slot, o, original) ==
    IF slot = <<>> THEN Answer("NotFound", slot, o)
    ELSE IF PatchGuarded(o, original)
            /\ o.ResourceVersion # slot[1].ResourceVersion
         THEN Answer("Conflict", slot, o)
    ELSE LET new == [slot[1] EXCEPT
                        !.Finalizers = IF o.Finalizers # original.Finalizers
                                       THEN o.Finalizers ELSE @]
         IN  IF Forbidden(slot[1], new) THEN Answer("Invalid", slot, o)
             ELSE Answer("ok", Settle(slot[1], new), Bump(slot[1], new))

\* client.Status().Patch: the status subresource takes only the status
StatusPatch(slot, o, original) ==
    IF slot = <<>> THEN Answer("NotFound", slot, o)
    ELSE IF PatchGuarded(o, original)
            /\ o.ResourceVersion # slot[1].ResourceVersion
         THEN Answer("Conflict", slot, o)
    ELSE LET new == [slot[1] EXCEPT
                        !.Conditions = IF o.Conditions # original.Conditions
                                       THEN o.Conditions ELSE @]
         IN  Answer("ok", <<Bump(slot[1], new)>>, Bump(slot[1], new))

\* any store call may also fail for a reason of its own
StoreError(slot, o) == Answer("StoreError", slot, o)

\* an IgnoreNotFound that lets every error through
IgnoreNothing(err) == err

\* ------------------------------------------------------------------ errors
\* An error is the chain of its messages, outermost first; nil is <<>>.
HookError == <<"hook failed">>
\* an Errorf that formats the error without wrapping it
ErrorfNoWrap(msg, err) == <<msg>>
Errorf(msg, err) == <<msg>> \o err
Wraps(err, inner) ==
    /\ Len(err) >= Len(inner)
    /\ SubSeq(err, Len(err) - Len(inner) + 1, Len(err)) = inner
ErrOf(res) == IF res = "ok" THEN Nil ELSE <<res>>
IsNotFound(err) == err = <<"NotFound">>
\* an IsConflict that takes every error for a conflict
IsAnyError(err) == err # Nil
IsConflict(err) == err = <<"Conflict">>
\* client.IgnoreNotFound
IgnoreNotFound(err) == IF IsNotFound(err) THEN Nil ELSE err


\* ------------------------------------------------- transform and predicate
\* tunables.gwClassName: the configured controller-class identity
gwClassName == ControllerClass

\* what the informer hands the transform when it only knows that o is gone
Tombstone(o) == [o EXCEPT !.Kind = "DeletedFinalStateUnknown"]

\* a transform that strips managed fields but keeps foreign classes
TransformKeepingForeign(i) ==
    IF i.Kind # "GatewayClass" THEN [obj |-> <<>>, err |-> Nil]
    ELSE [obj |-> <<[i EXCEPT !.ManagedFields = <<>>]>>, err |-> Nil]

\* tunables.TransformGatewayClass: [obj, err]; obj <<>> is the nil object
TransformGatewayClass(i) ==
    IF i.Kind # "GatewayClass" THEN [obj |-> <<>>, err |-> Nil]
    ELSE IF i.Spec # gwClassName THEN [obj |-> <<>>, err |-> Nil]
    ELSE [obj |-> <<[i EXCEPT !.ManagedFields = <<>>]>>, err |-> Nil]

\* cache.TransformStripManagedFields, set for Gateway in NewController
TransformStripManagedFields(i) ==
    [obj |-> <<[i EXCEPT !.ManagedFields = <<>>]>>, err |-> Nil]

\* kubeclient.Get of a GatewayClass by name, served from the cache
Lookup(slot, name) ==
    IF slot # <<>> /\ slot[1].Name = name THEN Nil ELSE <<"NotFound">>

\* a predicate that rejects only lookup errors other than not-found
matchIgnoringNotFound(obj, err) ==
    IF obj.Kind # "Gateway" THEN FALSE
    ELSE IF err # Nil /\ ~(err = <<"NotFound">>) THEN FALSE
    ELSE TRUE

\* matchManagedGatewayClass: obj is the event's object, err the error of
\* the lookup of the class it names
matchManagedGatewayClass(obj, err) ==
    IF obj.Kind # "Gateway" THEN FALSE
    ELSE IF err # Nil THEN FALSE
    ELSE TRUE

\* ------------------------------------------------------------------- state
VARIABLES
    store,      \* store[k]: the object of kind k in the object store
    observed,   \* observed[k]: the store slot the informer last delivered
    cache,      \* cache[k]: the informer cache, which serves client.Get
    queue,      \* queue[k]: a reconcile request for k is queued
    options,    \* options[k]: the reconciler's options
    pc,         \* pc[k]: where reconciler k stands
    obj,        \* obj[k]: the reconciler's in-memory object
    originalGw, \* the Gateway reconciler's DeepCopy of the fetched object
    attempt,    \* attempts used by the GatewayClass retry loop
    trace,      \* trace[k]: calls made by the current or last Reconcile
    result,     \* result[k]: error returned by the last Reconcile
    now,        \* the last reading of the clock
    xf,         \* the last call of the GatewayClass transform: [in, out]
    pred,       \* the last call of the admission predicate: its object,
                \* the lookup's error and the answer; and whether it ever
                \* answered true
    life        \* history of an object's life, kept when life.on: per kind,
                \* cleanups counts the pre-remove hook's successes and runs
                \* the invocations in a row that read the object as stored
                \* and returned nil, with no other write to the object in
                \* between (both stop counting at 2)

vars == <<store, observed, cache, queue, options, pc, obj, originalGw,
          attempt, trace, result, now, xf, pred, life>>

GC == "GatewayClass"
GW == "Gateway"

\* a call made by Reconcile: what was called, its outcome, the object it
\* returned (<<>> when none) and, for a write, the stored slot it found
Event(ev, res, o, before) == [ev |-> ev, res |-> res, o |-> o, before |-> before]

\* the calls that write: the object itself, or its status
ObjectWrites == {"Update", "Patch"}
StatusWrites == {"StatusUpdate", "StatusPatch"}
\* the write e of a trace was applied to the store
Applied(e) == e.ev \in ObjectWrites \cup StatusWrites /\ e.res = "ok"

\* a store slot as the informer cache shows it
Cached(slot) ==
    IF slot = <<>> THEN <<>> ELSE <<[slot[1] EXCEPT !.ManagedFields = <<>>]>>

\* the positions of the writes of trace[k] that were applied
AppliedAt(k) == {i \in 1..Len(trace[k]) : Applied(trace[k][i])}

\* the running invocation of k fetched the object as the store held it
FreshRead(k) ==
    /\ trace[k] # <<>>
    /\ trace[k][1].res = "ok"
    /\ trace[k][1].o =
          Cached(IF AppliedAt(k) = {} THEN store[k]
                 ELSE trace[k][CHOOSE i \in AppliedAt(k) :
                                  \A j \in AppliedAt(k) : i <= j].before)

\* no history is kept
NoLife ==
    [on |-> FALSE, cleanups |-> [k \in Kinds |-> 0], runs |-> [k \in Kinds |-> 0]]

\* history is kept from the start
NewLife == [NoLife EXCEPT !.on = TRUE]

Inc(n) == IF n < 2 THEN n + 1 ELSE n

\* the pre-remove hook of k was called and succeeded or not
LifeHook(k, ok) ==
    life' = IF life.on /\ ok THEN [life EXCEPT !.cleanups[k] = Inc(@)] ELSE life

\* an invocation of k is over
LifeDone(k) ==
    life' = IF ~life.on THEN life
            ELSE [life EXCEPT !.runs[k] =
                    IF @ >= 0 /\ result[k] = Nil /\ FreshRead(k)
                    THEN Inc(@) ELSE 0]

\* something other than its reconciler wrote to the object of kind k: the
\* count starts again, after the running invocation if there is one (-1)
LifeTouched(k) ==
    life' = IF life.on
            THEN [life EXCEPT !.runs[k] = IF pc[k] = "idle" THEN 0 ELSE -1]
            ELSE life

InitLocals ==
    /\ pc = [k \in Kinds |-> "idle"]
    /\ obj = [k \in Kinds |-> <<>>]
    /\ originalGw = <<>>
    /\ attempt = 0
    /\ trace = [k \in Kinds |-> <<>>]
    /\ result = [k \in Kinds |-> Nil]
    /\ now = 0
    /\ xf = <<>>
    /\ pred = [obj |-> <<>>, err |-> Nil, ok |-> FALSE, admitted |-> FALSE]
    /\ queue = [k \in Kinds |-> FALSE]

\* a GatewayClass in any state, under any options, not yet seen by the
\* informer, and no Gateway
InitClass ==
    /\ \E c \in {o \in ClassObjects : Stored(o)} \cup {UnmanagedClass},
          opt \in Options :
          /\ store = [k \in Kinds |-> IF k = GC THEN <<c>> ELSE <<>>]
          /\ options = [k \in Kinds |-> IF k = GC THEN opt ELSE DefaultOptions]
    /\ observed = [k \in Kinds |-> <<>>]
    /\ cache = [k \in Kinds |-> <<>>]
    /\ InitLocals
    /\ life = NoLife

\* a Gateway in any state, under any options, not yet seen by the
\* informer, and a GatewayClass that is missing, or foreign, or managed,
\* cached and settled by a reconciler that handles no finalizer
InitGateway ==
    /\ \E g \in {o \in GatewayObjects : Stored(o)} \cup {StrayGateway},
          opt \in Options,
          c \in {<<>>, <<SettledClass>>, <<UnmanagedClass>>} :
          /\ store = [k \in Kinds |-> IF k = GW THEN <<g>> ELSE c]
          /\ options = [k \in Kinds |->
                          IF k = GW THEN opt ELSE NoFinalizerOptions]
          /\ observed = [k \in Kinds |-> IF k = GW THEN <<>> ELSE c]
          /\ cache = [k \in Kinds |->
                        IF k = GW \/ c = <<>> THEN <<>>
                        ELSE TransformGatewayClass(c[1]).obj]
    /\ InitLocals
    /\ life = NoLife

Init == InitClass \/ InitGateway

\* ------------------------------------------------------------- environment
\* the store marks o as being deleted, or removes it at once when no
\* finalizer holds it
Deleted(o) == Settle(o, [o EXCEPT !.DeletionTimestamp = TRUE])

\* a user deletes the Gateway
UserDeleteGateway ==
    /\ store[GW] # <<>>
    /\ ~store[GW][1].DeletionTimestamp
    /\ store' = [store EXCEPT ![GW] = Deleted(@[1])]
    /\ UNCHANGED <<observed, cache, queue, options, pc, obj, originalGw,
                   attempt, trace, result, now, xf, pred>>
    /\ LifeTouched(GW)

\* a user deletes the GatewayClass; users do so only once no Gateway is left
UserDeleteGatewayClass ==
    /\ store[GW] = <<>>
    /\ store[GC] # <<>>
    /\ ~store[GC][1].DeletionTimestamp
    /\ store' = [store EXCEPT ![GC] = Deleted(@[1])]
    /\ UNCHANGED <<observed, cache, queue, options, pc, obj, originalGw,
                   attempt, trace, result, now, xf, pred>>
    /\ LifeTouched(GC)

\* The informer delivers the latest change of the GatewayClass: the
\* transform runs first; a nil result keeps the object out of the cache and
\* away from the reconciler, anything else is cached and queued.
InformerGatewayClass ==
    /\ observed[GC] # store[GC]
    /\ \E in \in IF store[GC] # <<>> THEN {store[GC][1]}
                 ELSE {observed[GC][1], Tombstone(observed[GC][1])} :
         LET out == TransformGatewayClass(in)
             known == cache[GC] # <<>> \/ out.obj # <<>>
         IN  /\ xf' = <<in, out>>
             /\ cache' = [cache EXCEPT ![GC] =
                             IF store[GC] = <<>> THEN <<>> ELSE out.obj]
             /\ queue' = [queue EXCEPT ![GC] = @ \/ known]
    /\ observed' = [observed EXCEPT ![GC] = store[GC]]
    /\ UNCHANGED <<store, options, pc, obj, originalGw, attempt, trace,
                   result, now, pred>>
    /\ UNCHANGED life

\* The informer delivers the latest change of the Gateway: managed fields
\* are stripped, then the admission predicate decides whether to queue.
InformerGateway ==
    /\ observed[GW] # store[GW]
    /\ LET in == IF store[GW] # <<>> THEN store[GW][1] ELSE observed[GW][1]
           out == TransformStripManagedFields(in)
       IN  /\ cache' = [cache EXCEPT ![GW] =
                           IF store[GW] = <<>> THEN <<>> ELSE out.obj]
           /\ \E err \in {Lookup(cache[GC], in.Spec), <<"StoreError">>} :
                LET ok == matchManagedGatewayClass(out.obj[1], err)
                IN  /\ pred' = [obj |-> out.obj, err |-> err, ok |-> ok,
                                 admitted |-> pred.admitted \/ ok]
                    /\ queue' = [queue EXCEPT ![GW] = @ \/ ok]
    /\ observed' = [observed EXCEPT ![GW] = store[GW]]
    /\ UNCHANGED <<store, options, pc, obj, originalGw, attempt, trace,
                   result, now, xf>>
    /\ UNCHANGED life


\* ------------------------------------------------------- common to both
\* the work queue hands a queued request to the idle reconciler
ReconcileStart(k) ==
    /\ pc[k] = "idle"
    /\ queue[k]
    /\ queue' = [queue EXCEPT ![k] = FALSE]
    /\ pc' = [pc EXCEPT ![k] = "Get"]
    /\ UNCHANGED <<store, observed, cache, options, obj, originalGw, attempt,
                   trace, result, now, xf, pred>>
    /\ UNCHANGED life

\* Reconcile returns err
Return(k, err) ==
    /\ pc' = [pc EXCEPT ![k] = "done"]
    /\ result' = [result EXCEPT ![k] = err]

\* the invocation is over and its locals are gone; the work queue
\* redelivers a request whose Reconcile returned an error
ReconcileDone(k) ==
    /\ pc[k] = "done"
    /\ pc' = [pc EXCEPT ![k] = "idle"]
    /\ queue' = [queue EXCEPT ![k] = @ \/ result[k] # Nil]
    /\ trace' = [trace EXCEPT ![k] = <<>>]
    /\ result' = [result EXCEPT ![k] = Nil]
    /\ obj' = [obj EXCEPT ![k] = <<>>]
    /\ originalGw' = IF k = GW THEN <<>> ELSE originalGw
    /\ attempt' = IF k = GC THEN 0 ELSE attempt
    /\ UNCHANGED <<store, observed, cache, options, now, xf, pred>>
    /\ LifeDone(k)

Log(k, e) == trace' = [trace EXCEPT ![k] = Append(@, e)]

\* client.Get: served from the cache, or failing for a reason of its own
GetOutcomes(k) ==
    {IF cache[k] = <<>> THEN Answer("NotFound", <<>>, <<>>)
     ELSE Answer("ok", <<>>, cache[k]),
     Answer("StoreError", <<>>, <<>>)}

\* a hook returns nil or an error
HookOutcomes == {Nil, HookError}

\* ----------------------------------------------- GatewayClass reconciler
\* gatewayclass.go:87-88: the removal branch is taken for a terminating
\* object from which RemoveFinalizer took the configured finalizer
ClassTakesRemoval(o, opt) ==
    /\ o.DeletionTimestamp
    /\ opt.FinalizerName # ""
    /\ RemoveFinalizerChanged(o, opt.FinalizerName)

\* a reconciler that never takes the add branch
ClassNeverTakesAdd(o, opt) == FALSE

\* gatewayclass.go:107: the add branch is taken when AddFinalizer added the
\* configured finalizer
ClassTakesAdd(o, opt) ==
    /\ opt.FinalizerName # ""
    /\ AddFinalizerChanged(o, opt.FinalizerName)

\* gatewayclass.go:79-98 up to the first hook or write
ClassGet ==
    /\ pc[GC] = "Get"
    /\ \E a \in GetOutcomes(GC) :
         /\ Log(GC, Event("Get", a.res, a.obj, <<>>))
         /\ IF a.res = "NotFound"
            THEN /\ Return(GC, Nil)
                 /\ UNCHANGED <<obj, attempt>>
            ELSE IF a.res # "ok"
            THEN /\ Return(GC, ErrOf(a.res))
                 /\ UNCHANGED <<obj, attempt>>
            ELSE IF ClassTakesRemoval(a.obj[1], options[GC])
            THEN /\ obj' = [obj EXCEPT ![GC] =
                      <<RemoveFinalizerObj(a.obj[1], options[GC].FinalizerName)>>]
                 /\ pc' = [pc EXCEPT ![GC] =
                      IF options[GC].RemoveFinalizerFunc
                      THEN "RemoveFinalizerFunc" ELSE "RemoveWrite"]
                 /\ UNCHANGED <<attempt, result>>
            ELSE /\ obj' = [obj EXCEPT ![GC] = a.obj]
                 /\ pc' = [pc EXCEPT ![GC] = "RetryGet"]
                 /\ attempt' = 1
                 /\ UNCHANGED result
    /\ UNCHANGED <<store, observed, cache, queue, options, originalGw, now, xf, pred>>
    /\ UNCHANGED life

\* gatewayclass.go:89-93
ClassRemoveFinalizerFunc ==
    /\ pc[GC] = "RemoveFinalizerFunc"
    /\ \E err \in HookOutcomes :
         /\ Log(GC, Event("RemoveFinalizerFunc", IF err = Nil THEN "ok" ELSE "error", <<>>, <<>>))
         /\ IF err # Nil
            THEN Return(GC, Errorf("error executing pre-finalizer removal function", err))
            ELSE /\ pc' = [pc EXCEPT ![GC] = "RemoveWrite"]
                 /\ UNCHANGED result
         /\ LifeHook(GC, err = Nil)
    /\ UNCHANGED <<store, observed, cache, queue, options, obj, originalGw, attempt,
                   now, xf, pred>>

\* gatewayclass.go:96
ClassRemoveUpdate ==
    /\ pc[GC] = "RemoveWrite"
    /\ \E a \in {Update(store[GC], obj[GC][1]), StoreError(store[GC], obj[GC][1])} :
         /\ store' = [store EXCEPT ![GC] = a.store]
         /\ Log(GC, Event("Update", a.res, IF a.res = "ok" THEN <<a.obj>> ELSE <<>>,
                        store[GC]))
         /\ Return(GC, ErrOf(a.res))
    /\ UNCHANGED <<observed, cache, queue, options, obj, originalGw, attempt, now,
                   xf, pred>>
    /\ UNCHANGED life

\* retry.RetryOnConflict: what follows the closure returning err in the
\* given attempt
ClassClosureReturns(err) ==
    IF IsConflict(err) /\ attempt < DefaultBackoffSteps
    THEN /\ pc' = [pc EXCEPT ![GC] = "RetryGet"]
         /\ attempt' = attempt + 1
         /\ UNCHANGED result
    ELSE /\ Return(GC, err)
         /\ UNCHANGED attempt

\* gatewayclass.go:102-116 up to the hook or write of this attempt
ClassRetryGet ==
    /\ pc[GC] = "RetryGet"
    /\ now' \in now..MaxClock
    /\ \E a \in GetOutcomes(GC) :
         /\ Log(GC, Event("Get", a.res, a.obj, <<>>))
         /\ IF a.res # "ok"
            THEN /\ ClassClosureReturns(IgnoreNotFound(ErrOf(a.res)))
                 /\ UNCHANGED obj
            ELSE IF ClassTakesAdd(a.obj[1], options[GC])
            THEN /\ obj' = [obj EXCEPT ![GC] =
                      <<AddFinalizerObj(a.obj[1], options[GC].FinalizerName)>>]
                 /\ pc' = [pc EXCEPT ![GC] =
                      IF options[GC].AddFinalizerFunc
                      THEN "AddFinalizerFunc" ELSE "AddWrite"]
                 /\ UNCHANGED <<attempt, result>>
            ELSE /\ obj' = [obj EXCEPT ![GC] =
                      <<[a.obj[1] EXCEPT !.Conditions =
                            markAsAccepted(@, a.obj[1].Generation, now')]>>]
                 /\ pc' = [pc EXCEPT ![GC] = "StatusWrite"]
                 /\ UNCHANGED <<attempt, result>>
    /\ UNCHANGED <<store, observed, cache, queue, options, originalGw, xf, pred>>
    /\ UNCHANGED life

\* gatewayclass.go:108-112
ClassAddFinalizerFunc ==
    /\ pc[GC] = "AddFinalizerFunc"
    /\ \E err \in HookOutcomes :
         /\ Log(GC, Event("AddFinalizerFunc", IF err = Nil THEN "ok" ELSE "error", <<>>, <<>>))
         /\ IF err # Nil
            THEN ClassClosureReturns(
                    Errorf("error executing pre-finalizer add function", err))
            ELSE /\ pc' = [pc EXCEPT ![GC] = "AddWrite"]
                 /\ UNCHANGED <<attempt, result>>
    /\ UNCHANGED <<store, observed, cache, queue, options, obj, originalGw, now,
                   xf, pred>>
    /\ UNCHANGED life

\* gatewayclass.go:114
ClassAddUpdate ==
    /\ pc[GC] = "AddWrite"
    /\ \E a \in {Update(store[GC], obj[GC][1]), StoreError(store[GC], obj[GC][1])} :
         /\ store' = [store EXCEPT ![GC] = a.store]
         /\ Log(GC, Event("Update", a.res, IF a.res = "ok" THEN <<a.obj>> ELSE <<>>,
                        store[GC]))
         /\ ClassClosureReturns(ErrOf(a.res))
    /\ UNCHANGED <<observed, cache, queue, options, obj, originalGw, now, xf, pred>>
    /\ UNCHANGED life

\* gatewayclass.go:117
ClassStatusUpdate ==
    /\ pc[GC] = "StatusWrite"
    /\ \E a \in {StatusUpdate(store[GC], obj[GC][1]),
                 StoreError(store[GC], obj[GC][1])} :
         /\ store' = [store EXCEPT ![GC] = a.store]
         /\ Log(GC, Event("StatusUpdate", a.res, IF a.res = "ok" THEN <<a.obj>> ELSE <<>>,
                        store[GC]))
         /\ ClassClosureReturns(ErrOf(a.res))
    /\ UNCHANGED <<observed, cache, queue, options, obj, originalGw, now, xf, pred>>
    /\ UNCHANGED life


\* ---------------------------------------------------- Gateway reconciler
\* gateway.go:105-106
GatewayTakesRemoval(o, opt) ==
    /\ o.DeletionTimestamp
    /\ opt.FinalizerName # ""
    /\ RemoveFinalizerChanged(o, opt.FinalizerName)

\* an add condition that does not look at the finalizer name
GatewayTakesAddUnnamed(o, opt) == AddFinalizerChanged(o, opt.FinalizerName)

\* gateway.go:119
GatewayTakesAdd(o, opt) ==
    /\ opt.FinalizerName # ""
    /\ AddFinalizerChanged(o, opt.FinalizerName)

\* gateway.go:132-137: the call's return value is dropped, so the object
\* keeps what its own slice shows afterwards
SetAccepted(o, t) ==
    [o EXCEPT !.Conditions = CallerSliceAfter(@,
        mutateConditions(@, Accepted, "Accepted", "True",
                         "Gateway is accepted", o.Generation, t))]

\* gateway.go:146-151, likewise
SetProgrammed(o, t) ==
    [o EXCEPT !.Conditions = CallerSliceAfter(@,
        mutateConditions(@, Programmed, "Programmed", "True",
                         "Gateway is programmed", o.Generation, t))]

\* gateway.go:95-137 up to the first hook or write
GatewayGet ==
    /\ pc[GW] = "Get"
    /\ now' \in now..MaxClock
    /\ \E a \in GetOutcomes(GW) :
         /\ Log(GW, Event("Get", a.res, a.obj, <<>>))
         /\ IF a.res = "NotFound"
            THEN /\ Return(GW, Nil)
                 /\ UNCHANGED <<obj, originalGw>>
            ELSE IF a.res # "ok"
            THEN /\ Return(GW, ErrOf(a.res))
                 /\ UNCHANGED <<obj, originalGw>>
            ELSE /\ originalGw' = a.obj
                 /\ UNCHANGED result
                 /\ IF GatewayTakesRemoval(a.obj[1], options[GW])
                    THEN /\ obj' = [obj EXCEPT ![GW] =
                              <<RemoveFinalizerObj(a.obj[1], options[GW].FinalizerName)>>]
                         /\ pc' = [pc EXCEPT ![GW] =
                              IF options[GW].RemoveFinalizerFunc
                              THEN "RemoveFinalizerFunc" ELSE "RemoveWrite"]
                    ELSE IF GatewayTakesAdd(a.obj[1], options[GW])
                    THEN /\ obj' = [obj EXCEPT ![GW] =
                              <<AddFinalizerObj(a.obj[1], options[GW].FinalizerName)>>]
                         /\ pc' = [pc EXCEPT ![GW] =
                              IF options[GW].AddFinalizerFunc
                              THEN "AddFinalizerFunc" ELSE "AddWrite"]
                    ELSE /\ obj' = [obj EXCEPT ![GW] = <<SetAccepted(a.obj[1], now')>>]
                         /\ pc' = [pc EXCEPT ![GW] = "AcceptedWrite"]
    /\ UNCHANGED <<store, observed, cache, queue, options, attempt, xf, pred>>
    /\ UNCHANGED life

\* gateway.go:107-111
GatewayRemoveFinalizerFunc ==
    /\ pc[GW] = "RemoveFinalizerFunc"
    /\ \E err \in HookOutcomes :
         /\ Log(GW, Event("RemoveFinalizerFunc", IF err = Nil THEN "ok" ELSE "error", <<>>, <<>>))
         /\ IF err # Nil
            THEN Return(GW, Errorf("error executing pre-finalizer removal function", err))
            ELSE /\ pc' = [pc EXCEPT ![GW] = "RemoveWrite"]
                 /\ UNCHANGED result
         /\ LifeHook(GW, err = Nil)
    /\ UNCHANGED <<store, observed, cache, queue, options, obj, originalGw, attempt,
                   now, xf, pred>>

\* gateway.go:114
GatewayRemovePatch ==
    /\ pc[GW] = "RemoveWrite"
    /\ \E a \in {Patch(store[GW], obj[GW][1], originalGw[1]),
                 StoreError(store[GW], obj[GW][1])} :
         /\ store' = [store EXCEPT ![GW] = a.store]
         /\ Log(GW, Event("Patch", a.res, IF a.res = "ok" THEN <<a.obj>> ELSE <<>>,
                        store[GW]))
         /\ Return(GW, ErrOf(a.res))
    /\ UNCHANGED <<observed, cache, queue, options, obj, originalGw, attempt, now,
                   xf, pred>>
    /\ UNCHANGED life

\* gateway.go:120-124
GatewayAddFinalizerFunc ==
    /\ pc[GW] = "AddFinalizerFunc"
    /\ \E err \in HookOutcomes :
         /\ Log(GW, Event("AddFinalizerFunc", IF err = Nil THEN "ok" ELSE "error", <<>>, <<>>))
         /\ IF err # Nil
            THEN Return(GW, Errorf("error executing pre-finalizer add function", err))
            ELSE /\ pc' = [pc EXCEPT ![GW] = "AddWrite"]
                 /\ UNCHANGED result
    /\ UNCHANGED <<store, observed, cache, queue, options, obj, originalGw, attempt,
                   now, xf, pred>>
    /\ UNCHANGED life

\* gateway.go:127-137: the response of a successful Patch replaces the
\* in-memory object, whose conditions are then mutated
GatewayAddPatch ==
    /\ pc[GW] = "AddWrite"
    /\ now' \in now..MaxClock
    /\ \E a \in {Patch(store[GW], obj[GW][1], originalGw[1]),
                 StoreError(store[GW], obj[GW][1])} :
         /\ store' = [store EXCEPT ![GW] = a.store]
         /\ Log(GW, Event("Patch", a.res, IF a.res = "ok" THEN <<a.obj>> ELSE <<>>,
                        store[GW]))
         /\ IF a.res # "ok"
            THEN /\ Return(GW, ErrOf(a.res))
                 /\ UNCHANGED obj
            ELSE /\ obj' = [obj EXCEPT ![GW] = <<SetAccepted(a.obj, now')>>]
                 /\ pc' = [pc EXCEPT ![GW] = "AcceptedWrite"]
                 /\ UNCHANGED result
    /\ UNCHANGED <<observed, cache, queue, options, originalGw, attempt, xf, pred>>
    /\ UNCHANGED life

\* gateway.go:139-151
GatewayAcceptedPatch ==
    /\ pc[GW] = "AcceptedWrite"
    /\ now' \in now..MaxClock
    /\ \E a \in {StatusPatch(store[GW], obj[GW][1], originalGw[1]),
                 StoreError(store[GW], obj[GW][1])} :
         /\ store' = [store EXCEPT ![GW] = a.store]
         /\ Log(GW, Event("StatusPatch", a.res, IF a.res = "ok" THEN <<a.obj>> ELSE <<>>,
                        store[GW]))
         /\ IF a.res # "ok"
            THEN /\ Return(GW, Errorf("error adding accepted condition", ErrOf(a.res)))
                 /\ UNCHANGED obj
            ELSE /\ obj' = [obj EXCEPT ![GW] = <<SetProgrammed(a.obj, now')>>]
                 /\ pc' = [pc EXCEPT ![GW] = "ProgrammedWrite"]
                 /\ UNCHANGED result
    /\ UNCHANGED <<observed, cache, queue, options, originalGw, attempt, xf, pred>>
    /\ UNCHANGED life

\* gateway.go:153-157
GatewayProgrammedPatch ==
    /\ pc[GW] = "ProgrammedWrite"
    /\ \E a \in {StatusPatch(store[GW], obj[GW][1], originalGw[1]),
                 StoreError(store[GW], obj[GW][1])} :
         /\ store' = [store EXCEPT ![GW] = a.store]
         /\ Log(GW, Event("StatusPatch", a.res, IF a.res = "ok" THEN <<a.obj>> ELSE <<>>,
                        store[GW]))
         /\ IF a.res # "ok"
            THEN Return(GW, Errorf("error adding programmed condition", ErrOf(a.res)))
            ELSE Return(GW, Nil)
    /\ UNCHANGED <<observed, cache, queue, options, obj, originalGw, attempt, now,
                   xf, pred>>
    /\ UNCHANGED life

\* ------------------------------------------------------------ specification
Next ==
    \/ UserDeleteGateway
    \/ UserDeleteGatewayClass
    \/ InformerGatewayClass
    \/ InformerGateway
    \/ \E k \in Kinds : ReconcileStart(k)
    \/ \E k \in Kinds : ReconcileDone(k)
    \/ ClassGet
    \/ ClassRemoveFinalizerFunc
    \/ ClassRemoveUpdate
    \/ ClassRetryGet
    \/ ClassAddFinalizerFunc
    \/ ClassAddUpdate
    \/ ClassStatusUpdate
    \/ GatewayGet
    \/ GatewayRemoveFinalizerFunc
    \/ GatewayRemovePatch
    \/ GatewayAddFinalizerFunc
    \/ GatewayAddPatch
    \/ GatewayAcceptedPatch
    \/ GatewayProgrammedPatch

Spec == Init /\ [][Next]_vars

TypeOK ==
    /\ now \in 0..MaxClock
    /\ \A k \in Kinds : Len(store[k]) <= 1 /\ Len(cache[k]) <= 1


\* ------------------------------------------------------------------ claims
Hooks == {"AddFinalizerFunc", "RemoveFinalizerFunc"}

Returned(k) == pc[k] = "done"

\* the events of trace[k] after position i, up to the next Get
RECURSIVE UntilNextGet(_, _)
UntilNextGet(tr, i) ==
    IF i >= Len(tr) \/ tr[i + 1].ev = "Get" THEN <<>>
    ELSE <<tr[i + 1]>> \o UntilNextGet(tr, i + 1)

\* list b is list a without x, everything else kept in place
Without(a, b, x) ==
    /\ ~InSeq(b, x)
    /\ \E i \in 1..Len(a) :
          /\ a[i] = x
          /\ b = SubSeq(a, 1, i - 1) \o SubSeq(a, i + 1, Len(a))

\* Reconcile fetched a terminating object that carries the configured
\* finalizer
FetchedTerminatingHeld(k) ==
    /\ trace[k] # <<>>
    /\ trace[k][1].res = "ok"
    /\ options[k].FinalizerName # ""
    /\ trace[k][1].o[1].DeletionTimestamp
    /\ InSeq(trace[k][1].o[1].Finalizers, options[k].FinalizerName)

\* C1: after fetching a terminating object that carries the configured
\* finalizer, either reconciler calls the pre-remove hook (when one is set)
\* and only then writes the object, once, with exactly that finalizer taken
\* out; it calls no pre-add hook and writes no status; and it returns nil
\* when the hook and the write succeed.
C1_RemovalPath ==
    \A k \in Kinds :
        FetchedTerminatingHeld(k) =>
            LET tr == trace[k]
                hook == options[k].RemoveFinalizerFunc
                w == IF hook THEN 3 ELSE 2
            IN  /\ Len(tr) <= w
                /\ (hook /\ Len(tr) >= 2) => tr[2].ev = "RemoveFinalizerFunc"
                /\ Len(tr) = w =>
                      /\ tr[w].ev = (IF k = GC THEN "Update" ELSE "Patch")
                      /\ hook => tr[2].res = "ok"
                      /\ tr[w].res = "ok" =>
                            Without(tr[1].o[1].Finalizers,
                                    tr[w].o[1].Finalizers,
                                    options[k].FinalizerName)
                      /\ Returned(k)
                      /\ result[k] = Nil <=> tr[w].res = "ok"
                /\ (Returned(k) /\ Len(tr) < w) =>
                      /\ hook /\ Len(tr) = 2 /\ tr[2].res = "error"
                      /\ result[k] # Nil

C1_Witness ==
    \E k \in Kinds :
        /\ FetchedTerminatingHeld(k)
        /\ Returned(k)
        /\ options[k].RemoveFinalizerFunc
        /\ Len(trace[k]) = 3
        /\ trace[k][2].res = "ok"
        /\ trace[k][3].res = "ok"
        /\ trace[k][1].o[1].Finalizers = <<G, F>>
        /\ trace[k][3].o[1].Finalizers = <<G>>
        /\ result[k] = Nil

\* C2: when a hook returns an error, Reconcile returns at once an error
\* that wraps the hook's error, and no write of that invocation has been
\* applied to the store.
C2_HookErrorAborts ==
    \A k \in Kinds :
        \A i \in 1..Len(trace[k]) :
            (trace[k][i].ev \in Hooks /\ trace[k][i].res = "error") =>
                /\ i = Len(trace[k])
                /\ Returned(k)
                /\ result[k] # HookError
                /\ Wraps(result[k], HookError)
                /\ \A j \in 1..Len(trace[k]) : ~Applied(trace[k][j])

C2_Witness ==
    /\ Returned(GW)
    /\ Len(trace[GW]) = 2
    /\ trace[GW][2].ev = "AddFinalizerFunc"
    /\ trace[GW][2].res = "error"
    /\ store[GW] = <<[trace[GW][1].o[1] EXCEPT !.ManagedFields = <<"manager">>]>>

\* C3: after fetching a non-terminating object that carries the configured
\* finalizer, neither reconciler calls the pre-add hook, and no write it
\* makes changes the stored finalizer list.
C3_NoSecondAdd ==
    \A k \in Kinds :
        \A i \in 1..Len(trace[k]) :
            LET e == trace[k][i]
            IN  (/\ e.ev = "Get" /\ e.res = "ok"
                 /\ options[k].FinalizerName # ""
                 /\ ~e.o[1].DeletionTimestamp
                 /\ InSeq(e.o[1].Finalizers, options[k].FinalizerName)) =>
                    LET rest == UntilNextGet(trace[k], i)
                    IN  \A j \in 1..Len(rest) :
                            /\ rest[j].ev # "AddFinalizerFunc"
                            /\ Applied(rest[j]) =>
                                  rest[j].before # <<>>
                                  /\ rest[j].o[1].Finalizers =
                                        rest[j].before[1].Finalizers

C3_Witness ==
    \E k \in Kinds :
        /\ Returned(k)
        /\ result[k] = Nil
        /\ options[k].AddFinalizerFunc
        /\ options[k].FinalizerName = F
        /\ trace[k][1].res = "ok"
        /\ trace[k][1].o[1].Finalizers = <<G, F>>
        /\ ~trace[k][1].o[1].DeletionTimestamp
        /\ Applied(trace[k][Len(trace[k])])
        /\ store[k] # <<>>
        /\ store[k][1].Finalizers = <<G, F>>

\* C4: the GatewayClass reconciler, after fetching in its retry loop a
\* non-terminating object without the configured finalizer, calls the
\* pre-add hook (when one is set), then writes the full object with the
\* finalizer appended and returns; it writes status only in an attempt
\* whose fetch found the finalizer.
C4_AddThenStop ==
    LET tr == trace[GC]
    IN  \A i \in 2..Len(tr) :
            LET e == tr[i]
                rest == UntilNextGet(tr, i)
                hook == options[GC].AddFinalizerFunc
                w == IF hook THEN 2 ELSE 1
            IN  /\ (/\ e.ev = "Get" /\ e.res = "ok"
                    /\ options[GC].FinalizerName # ""
                    /\ ~e.o[1].DeletionTimestamp
                    /\ ~InSeq(e.o[1].Finalizers, options[GC].FinalizerName)) =>
                       /\ Len(rest) <= w
                       /\ (hook /\ Len(rest) >= 1) => rest[1].ev = "AddFinalizerFunc"
                       /\ Len(rest) = w =>
                             /\ rest[w].ev = "Update"
                             /\ hook => rest[1].res = "ok"
                             /\ rest[w].res = "ok" =>
                                   /\ rest[w].o[1].Finalizers =
                                         Append(e.o[1].Finalizers,
                                                options[GC].FinalizerName)
                                   /\ i + w = Len(tr)
                                   /\ Returned(GC) /\ result[GC] = Nil
                                   /\ \A j \in 1..Len(tr) : tr[j].ev # "StatusUpdate"
                /\ (e.ev = "StatusUpdate" /\ options[GC].FinalizerName # "") =>
                       /\ tr[i - 1].ev = "Get" /\ tr[i - 1].res = "ok"
                       /\ InSeq(tr[i - 1].o[1].Finalizers, options[GC].FinalizerName)

C4_Witness ==
    /\ Returned(GC)
    /\ result[GC] = Nil
    /\ options[GC].AddFinalizerFunc
    /\ Len(trace[GC]) = 4
    /\ trace[GC][2].o[1].Finalizers = <<G>>
    /\ ~trace[GC][2].o[1].DeletionTimestamp
    /\ trace[GC][3].ev = "AddFinalizerFunc"
    /\ trace[GC][4].ev = "Update"
    /\ store[GC] # <<>>
    /\ store[GC][1].Finalizers = <<G, F>>
    /\ store[GC][1].Conditions = trace[GC][2].o[1].Conditions


\* the condition of the given type in a list that has exactly one
TheCond(conds, type) == conds[CHOOSE i \in CondsOfType(conds, type) : TRUE]

\* conds holds exactly one condition of the type, true and observed at gen
TrueAt(conds, type, gen) ==
    /\ Cardinality(CondsOfType(conds, type)) = 1
    /\ TheCond(conds, type).Status = "True"
    /\ TheCond(conds, type).ObservedGeneration = gen

\* every condition of a other than those of the type is also in b
OthersKept(a, b, type) ==
    \A i \in 1..Len(a) : a[i].Type # type => InSeq(b, a[i])

\* C5 (as claimed): a GatewayClass Reconcile that returns nil after fetching
\* a non-terminating object with the configured finalizer has written a
\* status holding exactly one Accepted condition, true, with reason
\* "Accepted" and the object's generation, and every other condition kept;
\* also when there was no Accepted condition before.
C5_AcceptedWritten ==
    LET tr == trace[GC]
        n == Len(tr)
    IN  (/\ Returned(GC) /\ result[GC] = Nil
         /\ n >= 3
         /\ tr[n - 1].ev = "Get" /\ tr[n - 1].res = "ok"
         /\ ~tr[n - 1].o[1].DeletionTimestamp
         /\ options[GC].FinalizerName # ""
         /\ InSeq(tr[n - 1].o[1].Finalizers, options[GC].FinalizerName)) =>
            /\ tr[n].ev = "StatusUpdate" /\ tr[n].res = "ok"
            /\ TrueAt(tr[n].o[1].Conditions, Accepted, tr[n - 1].o[1].Generation)
            /\ TheCond(tr[n].o[1].Conditions, Accepted).Reason = "Accepted"
            /\ OthersKept(tr[n - 1].o[1].Conditions, tr[n].o[1].Conditions, Accepted)

\* C6 (as claimed): a Gateway Reconcile that returns nil after fetching a
\* non-terminating object has left a stored status with Accepted true and
\* Programmed true, both at the object's generation, whatever the condition
\* list was before.
C6_BothConditionsWritten ==
    LET tr == trace[GW]
        n == Len(tr)
    IN  (/\ Returned(GW) /\ result[GW] = Nil
         /\ n >= 1 /\ tr[1].res = "ok"
         /\ ~tr[1].o[1].DeletionTimestamp) =>
            /\ tr[n].ev = "StatusPatch" /\ tr[n].res = "ok"
            /\ TrueAt(tr[n].o[1].Conditions, Accepted, tr[1].o[1].Generation)
            /\ TrueAt(tr[n].o[1].Conditions, Programmed, tr[1].o[1].Generation)

\* the positions of the status writes in the Gateway trace
StatusPatches == {i \in 1..Len(trace[GW]) : trace[GW][i].ev = "StatusPatch"}

\* C7 (as claimed): in the Gateway reconciler a failed Accepted write is the
\* last write and its error is returned; after an Accepted write that
\* succeeded and a Programmed write that failed, the error is returned and
\* the status the Accepted write stored holds Accepted true.
C7_PartialProgress ==
    LET tr == trace[GW]
    IN  \A i \in StatusPatches :
            /\ (i = Len(tr) /\ tr[i].res # "ok") =>
                  /\ Returned(GW) /\ result[GW] # Nil
                  /\ Wraps(result[GW], ErrOf(tr[i].res))
            /\ (tr[i].res # "ok") => i = Len(tr)
            /\ (/\ i < Len(tr) /\ tr[i].res = "ok"
                /\ tr[i + 1].ev = "StatusPatch" /\ tr[i + 1].res # "ok") =>
                  /\ Returned(GW) /\ result[GW] # Nil
                  /\ TrueAt(tr[i].o[1].Conditions, Accepted, tr[1].o[1].Generation)

\* C8 (as claimed): after fetching a terminating object that does not carry
\* the configured finalizer, either reconciler calls no hook, attempts no
\* write of the object or of its status, and returns nil (unless a read of
\* the object failed).
C8_TerminatingWithoutFinalizerNoOp ==
    \A k \in Kinds :
        (/\ trace[k] # <<>> /\ trace[k][1].res = "ok"
         /\ options[k].FinalizerName # ""
         /\ trace[k][1].o[1].DeletionTimestamp
         /\ ~InSeq(trace[k][1].o[1].Finalizers, options[k].FinalizerName)) =>
            /\ \A j \in 1..Len(trace[k]) :
                  trace[k][j].ev \notin Hooks \cup ObjectWrites \cup StatusWrites
            /\ (/\ Returned(k)
                /\ \A j \in 1..Len(trace[k]) :
                      trace[k][j].ev = "Get" => trace[k][j].res # "StoreError") =>
                  result[k] = Nil


\* objects the admission predicate is tried on, and lookup errors
PredicateInputs == GatewayObjects \cup {StrayGateway} \cup ClassObjects
LookupErrors == {Nil, <<"NotFound">>, <<"StoreError">>}

\* the GatewayClass the Gateway o names is in the cache
ClassCached(o) ==
    /\ cache[GC] # <<>>
    /\ cache[GC][1].Name = o.Spec
    /\ cache[GC][1].Spec = gwClassName

\* the predicate answers true exactly for a Gateway whose lookup succeeded
PredicateRightOnInputs ==
    \A o \in PredicateInputs, e \in LookupErrors :
        matchManagedGatewayClass(o, e) <=> (o.Kind = "Gateway" /\ e = Nil)

C9_AnswerRight ==
    /\ PredicateRightOnInputs
    /\ pred.obj # <<>> =>
          (pred.ok <=> (pred.obj[1].Kind = "Gateway" /\ pred.err = Nil))
    /\ ~pred.admitted =>
          ~queue[GW] /\ pc[GW] = "idle" /\ trace[GW] = <<>>
    /\ (store[GW] # <<>> /\ store[GW][1].Spec = MissingClassName) =>
          ~pred.admitted
    /\ (store[GC] # <<>> /\ store[GC][1].Spec # gwClassName) =>
          ~pred.admitted

C9_QueuedOnlyIfCached ==
    (queue'[GW] /\ ~queue[GW]) =>
        \/ pc[GW] = "done" /\ result[GW] # Nil
        \/ pred'.ok /\ pred'.obj # <<>> /\ ClassCached(pred'.obj[1])

\* C9: the admission predicate answers true exactly for a Gateway whose
\* class lookup succeeded.  A Gateway event queues a request only when the
\* GatewayClass it names is in the cache (any other queueing is the
\* redelivery of a failed request), and without an admitted event the
\* Gateway reconciler never runs; a Gateway that names a missing or a
\* foreign GatewayClass is never admitted.
C9_Admission == []C9_AnswerRight /\ [][C9_QueuedOnlyIfCached]_vars

\* an event of a Gateway whose class is foreign was answered false and
\* nothing was queued
C9_Witness ==
    /\ pred.obj # <<>>
    /\ ~pred.ok
    /\ pred.err = <<"NotFound">>
    /\ store[GC] # <<>>
    /\ store[GC][1].Spec = OtherController
    /\ cache[GW] # <<>>
    /\ ~queue[GW]
    /\ trace[GW] = <<>>

\* objects the transform is tried on
TransformInputs ==
    ClassObjects \cup {UnmanagedClass} \cup {Tombstone(o) : o \in ClassObjects}
        \cup GatewayObjects

KeptFields ==
    {"Kind", "Name", "Spec", "Generation", "DeletionTimestamp", "Finalizers",
     "Conditions", "ResourceVersion"}

\* out is what C10 asks of the transform on input i
TransformedRight(i, out) ==
    /\ out.err = Nil
    /\ IF i.Kind = "GatewayClass" /\ i.Spec = gwClassName
       THEN /\ out.obj # <<>>
            /\ out.obj[1].ManagedFields = <<>>
            /\ \A f \in KeptFields : out.obj[1][f] = i[f]
       ELSE out.obj = <<>>

\* the transform does what is asked of it on every input tried
TransformRightOnInputs ==
    \A i \in TransformInputs : TransformedRight(i, TransformGatewayClass(i))

\* C10: the GatewayClass transform never returns an error; it returns the
\* nil object for anything that is not a GatewayClass and for a
\* GatewayClass of another controller; for a GatewayClass of the configured
\* controller it returns the object with managed fields cleared and every
\* other field as it was.  So the cache only ever holds such objects.
C10_Transform ==
    /\ TransformRightOnInputs
    /\ xf # <<>> => TransformedRight(xf[1], xf[2])
    /\ cache[GC] # <<>> =>
          /\ cache[GC][1].Spec = gwClassName
          /\ cache[GC][1].ManagedFields = <<>>
          /\ observed[GC] # <<>>
          /\ \A f \in KeptFields : cache[GC][1][f] = observed[GC][1][f]

C10_Witness ==
    /\ xf # <<>>
    /\ xf[1].Kind = "GatewayClass"
    /\ xf[1].Spec = gwClassName
    /\ xf[1].ManagedFields # <<>>
    /\ xf[1].DeletionTimestamp
    /\ xf[1].Finalizers = <<G, F>>
    /\ cache[GC] = xf[2].obj
    /\ cache[GC][1].ManagedFields = <<>>
    /\ cache[GC][1].Finalizers = <<G, F>>

\* C11: a Get that answers not-found ends the invocation at once with nil,
\* and a Get that fails otherwise ends it at once with that error; no write
\* of the invocation was applied, and when the failing Get is the first
\* fetch or the first fetch of the retry loop nothing but fetches was called.
C11_FetchFailure ==
    \A k \in Kinds :
        \A i \in 1..Len(trace[k]) :
            LET e == trace[k][i]
            IN  (e.ev = "Get" /\ e.res # "ok") =>
                    /\ i = Len(trace[k])
                    /\ Returned(k)
                    /\ result[k] = IF e.res = "NotFound" THEN Nil ELSE ErrOf(e.res)
                    /\ \A j \in 1..i : ~Applied(trace[k][j])
                    /\ i <= 2 => \A j \in 1..i : trace[k][j].ev = "Get"

\* the GatewayClass vanished between the first fetch and the fetch of the
\* retry loop, and Reconcile returned nil
C11_Witness ==
    /\ Returned(GC)
    /\ Len(trace[GC]) = 2
    /\ trace[GC][1].res = "ok"
    /\ trace[GC][2].ev = "Get"
    /\ trace[GC][2].res = "NotFound"
    /\ result[GC] = Nil

\* ------------------------------------------------- with a second writer
\* Another client of the store (a user, another controller) works on the
\* same objects: it adds its own finalizer, or sets a condition of its own.
OtherWriterFinalizer ==
    \E k \in Kinds :
        /\ store[k] # <<>>
        /\ store[k][1].ResourceVersion < MaxVersion
        /\ ~store[k][1].DeletionTimestamp
        /\ ~InSeq(store[k][1].Finalizers, G)
        /\ store' = [store EXCEPT ![k] =
              <<Bump(@[1], [@[1] EXCEPT !.Finalizers = Append(@, G)])>>]
        /\ LifeTouched(k)
        /\ UNCHANGED <<observed, cache, queue, options, pc, obj, originalGw,
                       attempt, trace, result, now, xf, pred>>

OtherWriterCondition ==
    \E k \in Kinds :
        /\ store[k] # <<>>
        /\ store[k][1].ResourceVersion < MaxVersion
        /\ ~HasCond(store[k][1].Conditions, Ready)
        /\ store' = [store EXCEPT ![k] =
              <<Bump(@[1], [@[1] EXCEPT !.Conditions =
                                Append(@, OldCondition(Ready))])>>]
        /\ LifeTouched(k)
        /\ UNCHANGED <<observed, cache, queue, options, pc, obj, originalGw,
                       attempt, trace, result, now, xf, pred>>

\* both hooks set, finalizer handling on
HookedOptions ==
    [FinalizerName |-> F, AddFinalizerFunc |-> TRUE,
     RemoveFinalizerFunc |-> TRUE]

\* objects the second writer has not touched yet: with or without the
\* configured finalizer, and an Accepted condition that is not yet true
WriterObjects(kind, spec) ==
    {Object(kind, IF kind = GC THEN ClassName ELSE "gw1", spec, FALSE, fins,
            <<OldCondition(Accepted)>>) : fins \in {<<>>, <<F>>}}

InitWriters ==
    /\ \/ \E c \in WriterObjects(GC, ControllerClass) :
             /\ store = [k \in Kinds |-> IF k = GC THEN <<c>> ELSE <<>>]
             /\ options = [k \in Kinds |->
                             IF k = GC THEN HookedOptions ELSE DefaultOptions]
             /\ observed = [k \in Kinds |-> <<>>]
             /\ cache = [k \in Kinds |-> <<>>]
       \/ \E g \in WriterObjects(GW, ClassName) :
             /\ store = [k \in Kinds |->
                           IF k = GW THEN <<g>> ELSE <<SettledClass>>]
             /\ options = [k \in Kinds |->
                             IF k = GW THEN HookedOptions ELSE NoFinalizerOptions]
             /\ observed = [k \in Kinds |->
                              IF k = GW THEN <<>> ELSE <<SettledClass>>]
             /\ cache = [k \in Kinds |->
                           IF k = GW THEN <<>>
                           ELSE TransformGatewayClass(SettledClass).obj]
    /\ InitLocals
    /\ life = NoLife

NextWriters == Next \/ OtherWriterFinalizer \/ OtherWriterCondition

SpecWriters == InitWriters /\ [][NextWriters]_vars

\* finalizers of a other than f are all in b
OtherFinalizersKept(a, b, f) ==
    \A i \in 1..Len(a) : a[i] # f => InSeq(b, a[i])

\* conditions of a that no reconciler sets are all in b
OtherConditionsKept(a, b) ==
    \A i \in 1..Len(a) :
        a[i].Type \notin {Accepted, Programmed} => InSeq(b, a[i])

\* C12 (as claimed): no write a reconciler gets applied loses what another
\* writer stored since the reconciler's read: every finalizer but the
\* configured one, and every condition the reconcilers do not set, that the
\* write found in the store is still there after it.
C12_NoLostUpdate ==
    \A k \in Kinds :
        \A i \in 1..Len(trace[k]) :
            LET e == trace[k][i]
            IN  Applied(e) =>
                    /\ OtherFinalizersKept(e.before[1].Finalizers,
                                           e.o[1].Finalizers,
                                           options[k].FinalizerName)
                    /\ OtherConditionsKept(e.before[1].Conditions,
                                           e.o[1].Conditions)

\* --------------------------------------------- over an object's whole life
\* new objects: never reconciled, with or without a foreign finalizer and
\* with or without an Accepted condition that is not yet true
LifeObjects(kind, spec) ==
    {Object(kind, IF kind = GC THEN ClassName ELSE "gw1", spec, FALSE, fins, conds) :
        fins \in {<<>>, <<G>>}, conds \in {<<>>, <<OldCondition(Accepted)>>}}

InitLife ==
    /\ \/ \E c \in LifeObjects(GC, ControllerClass) :
             /\ store = [k \in Kinds |-> IF k = GC THEN <<c>> ELSE <<>>]
             /\ options = [k \in Kinds |->
                             IF k = GC THEN HookedOptions ELSE DefaultOptions]
             /\ observed = [k \in Kinds |-> <<>>]
             /\ cache = [k \in Kinds |-> <<>>]
       \/ \E g \in LifeObjects(GW, ClassName) :
             /\ store = [k \in Kinds |->
                           IF k = GW THEN <<g>> ELSE <<SettledClass>>]
             /\ options = [k \in Kinds |->
                             IF k = GW THEN HookedOptions ELSE NoFinalizerOptions]
             /\ observed = [k \in Kinds |->
                              IF k = GW THEN <<>> ELSE <<SettledClass>>]
             /\ cache = [k \in Kinds |->
                           IF k = GW THEN <<>>
                           ELSE TransformGatewayClass(SettledClass).obj]
    /\ InitLocals
    /\ life = NewLife

SpecLife == InitLife /\ [][Next]_vars

\* the write e took the finalizer f off the stored object
TookOff(e, f) ==
    /\ Applied(e)
    /\ InSeq(e.before[1].Finalizers, f)
    /\ ~InSeq(e.o[1].Finalizers, f)

\* C13 (as claimed): over the life of an object the pre-remove hook succeeds
\* at most once, and it has succeeded exactly once when a reconciler's
\* write takes the configured finalizer off the stored object.
C13_CleanupOnce ==
    \A k \in Kinds :
        /\ life.cleanups[k] <= 1
        /\ \A i \in 1..Len(trace[k]) :
              (TookOff(trace[k][i], options[k].FinalizerName)
                  /\ options[k].RemoveFinalizerFunc) =>
                    life.cleanups[k] = 1

\* ------------------------------------------------------ the condition upsert
\* a condition, and a list of conditions, without the timestamps
Content(c) == [c EXCEPT !.LastTransitionTime = 0]
Contents(conds) == [i \in 1..Len(conds) |-> Content(conds[i])]

\* after is what the upsert of the named condition into before must give
UpsertRight(before, after, type, status, reason, message, generation) ==
    /\ Cardinality(CondsOfType(after, type)) = 1
    /\ \A i \in CondsOfType(after, type) :
          \E t \in 0..MaxClock :
              after[i] = NewCondition(type, status, reason, message, t, generation)
    /\ Len(after) = Len(before) + (IF HasCond(before, type) THEN 0 ELSE 1)
    /\ \A i \in 1..Len(before) :
          IF before[i].Type = type THEN after[i].Type = type
          ELSE after[i] = before[i]

\* mutateConditions, as called for Accepted, on every list tried
MutateRightOnInputs ==
    \A l \in InitialConditionLists, t \in 0..MaxClock, u \in 0..MaxClock :
        LET once == mutateConditions(l, Accepted, "Accepted", "True",
                                     "Gateway is accepted", 2, t)
            twice == mutateConditions(once, Accepted, "Accepted", "True",
                                      "Gateway is accepted", 2, u)
        IN  /\ UpsertRight(l, once, Accepted, "True", "Accepted",
                           "Gateway is accepted", 2)
            /\ Contents(twice) = Contents(once)

\* C14 (as claimed): both upserts, mutateConditions and markAsAccepted, give
\* a list with exactly one entry of the name, carrying the given values,
\* every other entry kept in place, one entry longer when the name was
\* absent, and the same content when applied again: mutateConditions on
\* every list tried, markAsAccepted on the list the GatewayClass reconciler
\* fetched before its status write.
C14_Upsert ==
    /\ MutateRightOnInputs
    /\ pc[GC] = "StatusWrite" =>
          LET got == trace[GC][Len(trace[GC])].o[1]
          IN  /\ UpsertRight(got.Conditions, obj[GC][1].Conditions, Accepted,
                             "True", "Accepted", "GatewayClass is accepted",
                             got.Generation)
              /\ Contents(markAsAccepted(obj[GC][1].Conditions,
                                         got.Generation, now))
                    = Contents(obj[GC][1].Conditions)

\* C15: a reconciler whose finalizer name is empty calls no hook and makes
\* no write of the object itself, and no write it gets applied changes the
\* stored finalizer list, whatever the fetched object looks like.
C15_NoFinalizerHandling ==
    \A k \in Kinds :
        options[k].FinalizerName = "" =>
            \A i \in 1..Len(trace[k]) :
                LET e == trace[k][i]
                IN  /\ e.ev \notin Hooks \cup ObjectWrites
                    /\ Applied(e) => e.o[1].Finalizers = e.before[1].Finalizers

\* with no finalizer name and both hooks set, Reconcile fetched a
\* terminating Gateway that carries two finalizers, wrote status twice and
\* returned nil
C15_Witness ==
    /\ options[GW].FinalizerName = ""
    /\ options[GW].AddFinalizerFunc
    /\ options[GW].RemoveFinalizerFunc
    /\ Returned(GW)
    /\ result[GW] = Nil
    /\ Len(trace[GW]) = 3
    /\ trace[GW][1].o[1].DeletionTimestamp
    /\ trace[GW][1].o[1].Finalizers = <<G, F>>
    /\ Applied(trace[GW][3])
    /\ store[GW] # <<>>
    /\ store[GW][1].Finalizers = <<G, F>>

\* ------------------------------------------------------------ running twice
\* C16 (as claimed): an invocation that runs on the state a successful
\* invocation left, nobody else having written since, calls no hook; and
\* after two such invocations in a row a further one on a non-terminating
\* object changes neither the stored finalizer list nor the content of the
\* stored conditions.
C16_SafeTwice ==
    \A k \in Kinds :
        FreshRead(k) =>
            /\ life.runs[k] >= 1 =>
                  \A i \in 1..Len(trace[k]) : trace[k][i].ev \notin Hooks
            /\ (life.runs[k] >= 2 /\ ~trace[k][1].o[1].DeletionTimestamp) =>
                  \A i \in AppliedAt(k) :
                      LET e == trace[k][i]
                      IN  /\ e.o[1].Finalizers = e.before[1].Finalizers
                          /\ Contents(e.o[1].Conditions) =
                                Contents(e.before[1].Conditions)

\* conds holds a condition of the type whose status is true
IsTrue(conds, type) ==
    \E i \in 1..Len(conds) : conds[i].Type = type /\ conds[i].Status = "True"

\* C17 (as claimed): no status write of the Gateway reconciler leaves the
\* stored status with Programmed true and without Accepted true.
C17_AcceptedBeforeProgrammed ==
    \A i \in StatusPatches :
        LET e == trace[GW][i]
        IN  (Applied(e) /\ IsTrue(e.o[1].Conditions, Programmed)) =>
                IsTrue(e.o[1].Conditions, Accepted)

\* -------------------------------------------------------- the retry loop
\* the fetches of the retry loop in the GatewayClass trace: every Get but
\* the first
RetryGets == {i \in 2..Len(trace[GC]) : trace[GC][i].ev = "Get"}

\* C18: in the retry loop of the GatewayClass reconciler an attempt is
\* re-run only after a write that answered Conflict, and then starts with a
\* Get; there are at most DefaultBackoffSteps attempts; a Conflict is
\* returned only when the last attempt allowed met it, and nil is returned
\* when a later attempt succeeds; any other error (a fetch that answers
\* not-found is none) ends the loop at once and is returned.
C18_RetryOnConflict ==
    LET tr == trace[GC]
        n == Len(tr)
    IN  (n >= 2 /\ tr[2].ev = "Get") =>
            /\ Cardinality(RetryGets) <= DefaultBackoffSteps
            /\ \A i \in RetryGets :
                  i > 2 => /\ tr[i - 1].ev \in ObjectWrites \cup StatusWrites
                           /\ tr[i - 1].res = "Conflict"
            /\ \A i \in 2..n :
                  /\ (tr[i].res = "Conflict" /\ i < n) => tr[i + 1].ev = "Get"
                  /\ (tr[i].res = "Conflict" /\ i = n) =>
                        IF Cardinality(RetryGets) < DefaultBackoffSteps
                        THEN pc[GC] = "RetryGet"
                        ELSE Returned(GC) /\ result[GC] = <<"Conflict">>
                  /\ (/\ tr[i].res \notin {"ok", "Conflict"}
                      /\ ~(tr[i].ev = "Get" /\ tr[i].res = "NotFound")) =>
                        /\ i = n
                        /\ Returned(GC)
                        /\ Wraps(result[GC],
                                 IF tr[i].ev \in Hooks THEN HookError
                                 ELSE ErrOf(tr[i].res))
            /\ (/\ Returned(GC)
                /\ \/ tr[n].res = "ok"
                   \/ tr[n].ev = "Get" /\ tr[n].res = "NotFound") =>
                  result[GC] = Nil

\* a first attempt met a Conflict, a second one wrote, and Reconcile
\* returned nil
C18_Witness ==
    /\ Returned(GC)
    /\ result[GC] = Nil
    /\ Cardinality(RetryGets) = 2
    /\ \E i \in 2..Len(trace[GC]) : trace[GC][i].res = "Conflict"
    /\ Applied(trace[GC][Len(trace[GC])])

\* ------------------------------------------------- releasing the finalizer
\* a user deletes the GatewayClass while a Gateway may still name it
UserDeleteGatewayClassAnytime ==
    /\ store[GC] # <<>>
    /\ ~store[GC][1].DeletionTimestamp
    /\ store' = [store EXCEPT ![GC] = Deleted(@[1])]
    /\ UNCHANGED <<observed, cache, queue, options, pc, obj, originalGw,
                   attempt, trace, result, now, xf, pred, life>>

\* a Gateway with or without the configured finalizer, both hooks set, and
\* its GatewayClass managed, cached and held by no finalizer
InitLive ==
    /\ \E fins \in {<<>>, <<F>>} :
          store = [k \in Kinds |->
                     IF k = GW
                     THEN <<Object(GW, "gw1", ClassName, FALSE, fins, <<>>)>>
                     ELSE <<SettledClass>>]
    /\ options = [k \in Kinds |->
                    IF k = GW THEN HookedOptions ELSE NoFinalizerOptions]
    /\ observed = [k \in Kinds |-> IF k = GW THEN <<>> ELSE <<SettledClass>>]
    /\ cache = [k \in Kinds |->
                  IF k = GW THEN <<>> ELSE TransformGatewayClass(SettledClass).obj]
    /\ InitLocals
    /\ life = NoLife

\* the Gateway controller and its environment
NextLive ==
    \/ UserDeleteGateway
    \/ UserDeleteGatewayClassAnytime
    \/ InformerGatewayClass
    \/ InformerGateway
    \/ ReconcileStart(GW)
    \/ ReconcileDone(GW)
    \/ GatewayGet
    \/ GatewayRemoveFinalizerFunc
    \/ GatewayRemovePatch
    \/ GatewayAddFinalizerFunc
    \/ GatewayAddPatch
    \/ GatewayAcceptedPatch
    \/ GatewayProgrammedPatch

\* events are delivered, queued requests are handed out and a running
\* Reconcile goes on; users delete when they like
SpecLive ==
    /\ InitLive
    /\ [][NextLive]_vars
    /\ WF_vars(InformerGatewayClass)
    /\ WF_vars(InformerGateway)
    /\ WF_vars(ReconcileStart(GW))
    /\ WF_vars(ReconcileDone(GW))
    /\ WF_vars(GatewayGet)
    /\ WF_vars(GatewayRemoveFinalizerFunc)
    /\ WF_vars(GatewayRemovePatch)
    /\ WF_vars(GatewayAddFinalizerFunc)
    /\ WF_vars(GatewayAddPatch)
    /\ WF_vars(GatewayAcceptedPatch)
    /\ WF_vars(GatewayProgrammedPatch)

\* the stored Gateway is terminating and carries the configured finalizer
HeldTerminating ==
    /\ store[GW] # <<>>
    /\ store[GW][1].DeletionTimestamp
    /\ InSeq(store[GW][1].Finalizers, options[GW].FinalizerName)

\* the configured finalizer is off the stored Gateway
Released ==
    \/ store[GW] = <<>>
    \/ ~InSeq(store[GW][1].Finalizers, options[GW].FinalizerName)

\* no hook, no store call and no lookup of the predicate has failed
NoFailure ==
    /\ \A i \in 1..Len(trace[GW]) : trace[GW][i].res \in {"ok", "NotFound"}
    /\ pred.err # <<"StoreError">>

\* C19 (as claimed): when no hook and no store call ever fails, a
\* terminating Gateway that carries the configured finalizer eventually
\* has it removed, also when its GatewayClass was deleted first.
C19_Release == ([]NoFailure) => (HeldTerminating ~> Released)

\* --------------------------------------------------- only its own finalizer
\* the object returned by the last Get of trace tr before position i
FetchedBefore(tr, i) ==
    LET gets == {j \in 1..(i - 1) : tr[j].ev = "Get" /\ tr[j].res = "ok"}
        last == CHOOSE j \in gets : \A h \in gets : h <= j
    IN  tr[last].o[1]

\* the applied write e touched no finalizer but f, took f off only from a
\* fetched object that was terminating and put f on only for a fetched
\* object that was not
OwnFinalizerOnly(e, fetched, f) ==
    LET a == e.before[1].Finalizers
        b == e.o[1].Finalizers
    IN  /\ (InSeq(a, f) /\ ~InSeq(b, f)) => fetched.DeletionTimestamp
        /\ (~InSeq(a, f) /\ InSeq(b, f)) => ~fetched.DeletionTimestamp
        /\ \A x \in {a[i] : i \in 1..Len(a)} \cup {b[i] : i \in 1..Len(b)} :
              x # f => (InSeq(a, x) <=> InSeq(b, x))

\* C20 (as claimed): a write of either reconciler takes the configured
\* finalizer off the stored object only if the object it fetched was
\* terminating, puts it on only if the object it fetched was not, and
\* neither adds nor removes any other finalizer.
C20_OwnFinalizerOnly ==
    \A k \in Kinds :
        \A i \in 1..Len(trace[k]) :
            Applied(trace[k][i]) =>
                OwnFinalizerOnly(trace[k][i], FetchedBefore(trace[k], i),
                                 options[k].FinalizerName)

\* ------------------------------------------------- the pre-add hook, once
\* the calls of the pre-add hook in trace tr, and those that returned nil
PreAddCalls(tr) == {i \in 1..Len(tr) : tr[i].ev = "AddFinalizerFunc"}
PreAddSucceeded(tr) == {i \in PreAddCalls(tr) : tr[i].res = "ok"}

\* the writes of trace tr that put the finalizer f on the stored object
PutOn(tr, f) ==
    {i \in 1..Len(tr) : /\ Applied(tr[i])
                        /\ ~InSeq(tr[i].before[1].Finalizers, f)
                        /\ InSeq(tr[i].o[1].Finalizers, f)}

\* C21 (as claimed): one invocation of the GatewayClass reconciler calls
\* the pre-add hook at most once, retries after a Conflict included, and
\* when it has returned, the pre-add hook (when one is set) has succeeded
\* as many times as the configured finalizer was put on the stored object.
C21_PreAddOnce ==
    /\ Cardinality(PreAddCalls(trace[GC])) <= 1
    /\ (Returned(GC) /\ options[GC].AddFinalizerFunc) =>
          Cardinality(PreAddSucceeded(trace[GC]))
              = Cardinality(PutOn(trace[GC], options[GC].FinalizerName))

\* ------------------------------------------------------ the order of events
\* a managed GatewayClass and a Gateway naming it were created at about the
\* same time: both are in the store and neither event has been delivered
\* yet; the Gateway carries both conditions, neither of them true, and not
\* the finalizer
InitAnyOrder ==
    /\ store = [k \in Kinds |->
                  IF k = GW
                  THEN <<Object(GW, "gw1", ClassName, FALSE, <<>>,
                                <<OldCondition(Accepted), OldCondition(Programmed)>>)>>
                  ELSE <<SettledClass>>]
    /\ options = [k \in Kinds |->
                    IF k = GW THEN HookedOptions ELSE NoFinalizerOptions]
    /\ observed = [k \in Kinds |-> <<>>]
    /\ cache = [k \in Kinds |-> <<>>]
    /\ InitLocals
    /\ life = NoLife

\* the Gateway controller with the events of the two objects delivered in
\* any order
SpecAnyOrder ==
    /\ InitAnyOrder
    /\ [][NextLive]_vars
    /\ WF_vars(InformerGatewayClass)
    /\ WF_vars(InformerGateway)
    /\ WF_vars(ReconcileStart(GW))
    /\ WF_vars(ReconcileDone(GW))
    /\ WF_vars(GatewayGet)
    /\ WF_vars(GatewayRemoveFinalizerFunc)
    /\ WF_vars(GatewayRemovePatch)
    /\ WF_vars(GatewayAddFinalizerFunc)
    /\ WF_vars(GatewayAddPatch)
    /\ WF_vars(GatewayAcceptedPatch)
    /\ WF_vars(GatewayProgrammedPatch)

\* no user touches the Gateway or its GatewayClass
LeftAlone ==
    /\ store[GW] # <<>> /\ ~store[GW][1].DeletionTimestamp
    /\ store[GC] # <<>> /\ ~store[GC][1].DeletionTimestamp

\* the stored Gateway carries the configured finalizer and both conditions
\* are true
Reconciled ==
    /\ store[GW] # <<>>
    /\ InSeq(store[GW][1].Finalizers, options[GW].FinalizerName)
    /\ IsTrue(store[GW][1].Conditions, Accepted)
    /\ IsTrue(store[GW][1].Conditions, Programmed)

\* C22 (as claimed): a Gateway of a managed GatewayClass that nobody
\* deletes or changes is eventually reconciled when nothing fails, whatever
\* the order in which the events of the two objects are delivered.
C22_Converges == ([]NoFailure /\ []LeftAlone) => <>Reconciled

====
